---- MODULE Spec2Model ----
(***************************************************************************)
(* Model of the signup / login backend of routes/users.js: the passport   *)
(* local strategy (verify callback, serializeUser, deserializeUser), the  *)
(* POST /login, GET /logout and POST /signup handlers, the user table     *)
(* behind prisma.user and the server-side sessions.                       *)
(*                                                                         *)
(* Every client (a browser with its session cookie) has one request in   *)
(* flight at a time.  A handler is cut into steps at its awaits and       *)
(* nextTicks, so that the requests of different clients interleave        *)
(* exactly where the event loop lets them.                                 *)
(***************************************************************************)
EXTENDS Integers, Sequences, FiniteSets, TLC

\* ------------------------------------------------------------------ bounds
MaxClients == 2    \* browsers, each with its session and one request in flight
MaxSalt  == 2      \* distinct values generateSalt can return
MaxMsgs  == 1      \* failure messages kept per session before the model stops adding logins
MaxId    == 2      \* ids handed out before the model stops removing rows

Clients  == 1..MaxClients
Salts    == 1..MaxSalt

\* ------------------------------------------------------------ input values
Undefined == "undefined"           \* a form field that was not submitted
None      == [none |-> TRUE]       \* null / no value held

Names     == {"", "alice", "bob"}
Passwords == {"", "secret", "wrong"}

\* the forms a browser submits: a login form has a name and a password; a
\* signup form has them too, and its email and age are given or left out
LoginBodies  == [name : Names, password : Passwords, email : {Undefined}, age : {Undefined}]
SignupBodies == [name : Names, password : {"", "secret"},
                 email : {"a@example.com"}, age : {"20"}]
           \cup [name : Names, password : {"", "secret"},
                 email : {Undefined}, age : {Undefined}]
NoBody       == [name |-> Undefined, password |-> Undefined,
                 email |-> Undefined, age |-> Undefined]

\* ------------------------------------------------ strings of the handlers
\* the messages of the two rejections of the verify callback (in the source the
\* same Japanese sentence twice: "the user name or the password is wrong")
\* variant: the unknown name gets a message of its own
NotFoundMessage_Revealing == "no such user"
NotFoundMessage    == "user name or password is wrong"
MismatchMessage    == "user name or password is wrong"
MissingCredentials == "Missing credentials"
\* variant: the success redirect set to the login form
successReturnToOrRedirect_LoginForm == "/users/login"
successReturnToOrRedirect == "/"
failureRedirect    == "/users/login"
LoginForm          == "/users/login"
SignupView         == "users/signup"
SignupTitle        == "Users/Signup"
NameMsg            == "NAME is required"
PasswordMsg        == "PASSWORD is required"
EmailMsg           == "EMAIL must be a mail address"
AgeMsg             == "AGE must be an integer"

\* ----------------------------------------------------- credential hasher
\* scrypt.generateSalt(): some value of Salts (random, so any of them).
\* scrypt.calcHash(password, salt): a fixed-length digest that determines
\* and is determined by the pair (an ideal one-way function).
calcHash(password, salt) == <<password, salt>>

\* node:crypto timingSafeEqual: throws on operands of different length,
\* otherwise tells whether they are equal.
timingSafeEqualThrows(a, b) == Len(a) # Len(b)
timingSafeEqual(a, b) == a = b

\* ------------------------------------------------------ express-validator
notEmpty(v) == v # Undefined /\ v # ""
isEmail(v)  == v \in {"a@example.com"}
isInt(v)    == v \in {"20"}
\* the unary plus of `age: +age`
ToNumber(v) == IF v = "20" THEN 20 ELSE -1

FieldError(path, msg, value) == [path |-> path, msg |-> msg, value |-> value]

\* variant: the name check left out
validationResult_NoNameCheck(body) ==
    (IF notEmpty(body.password) THEN <<>>
     ELSE <<FieldError("password", PasswordMsg, body.password)>>)
 \o (IF isEmail(body.email) THEN <<>> ELSE <<FieldError("email", EmailMsg, body.email)>>)
 \o (IF isInt(body.age) THEN <<>> ELSE <<FieldError("age", AgeMsg, body.age)>>)

\* variant: only name and password are checked
validationResult_NameAndPasswordOnly(body) ==
    (IF notEmpty(body.name) THEN <<>> ELSE <<FieldError("name", NameMsg, body.name)>>)
 \o (IF notEmpty(body.password) THEN <<>>
     ELSE <<FieldError("password", PasswordMsg, body.password)>>)

\* validationResult(req).array(): the failing checks, in the order declared
validationResult(body) ==
    (IF notEmpty(body.name) THEN <<>> ELSE <<FieldError("name", NameMsg, body.name)>>)
 \o (IF notEmpty(body.password) THEN <<>>
     ELSE <<FieldError("password", PasswordMsg, body.password)>>)
 \o (IF isEmail(body.email) THEN <<>> ELSE <<FieldError("email", EmailMsg, body.email)>>)
 \o (IF isInt(body.age) THEN <<>> ELSE <<FieldError("age", AgeMsg, body.age)>>)

\* ------------------------------------------------------- session reduction
\* variant: the whole row is handed to done
serializeUser_WholeUser(user) == user
serializeUser(user) == [id |-> user.id, name |-> user.name]
\* variant: the name is lost on the way back
deserializeUser_NameLost(user) == [id |-> user.id, name |-> ""]
deserializeUser(user) == user

\* -------------------------------------------------------------- responses
NoResponse       == [type |-> "none", to |-> "", data |-> None]
Redirect(url)    == [type |-> "redirect", to |-> url, data |-> None]
Render(view, d)  == [type |-> "render", to |-> view, data |-> d]
\* next(err): the error goes to the application's error handler
NextErr(e)       == [type |-> "error", to |-> e, data |-> None]
\* an await threw and the async handler ended without answering
Thrown(e)        == [type |-> "thrown", to |-> e, data |-> None]

\* the arguments a strategy's callback is called with: cb(err, user, info)
Cb(err, user, info) == [err |-> err, user |-> user, info |-> info]
NoCb == [err |-> "", user |-> None, info |-> "not called"]

VARIABLES
    users,      \* the rows of the user table behind prisma.user
    nextId,     \* the table's next autoincrement id
    session,    \* session[r]: passport's user, the failure messages and returnTo of client r
    req,        \* req[r]: the request of client r in flight
    signedUp    \* history: the <<name, password>> pairs whose signup created a row

vars == <<users, nextId, session, req, signedUp>>

\* A request has its kind and position, its form body, the locals of its
\* handler (user, salt, hashedPassword), the arguments the verify callback
\* passed to cb and the number of times it called cb, the message of a failed
\* login, the object serializeUser handed over, and the response.
Idle == [kind |-> "idle", pc |-> "idle", body |-> NoBody,
         user |-> None, salt |-> 0, hashedPassword |-> <<>>,
         cb |-> NoCb, cbCalls |-> 0, info |-> "", obj |-> None, res |-> NoResponse]

NoSession == [user |-> None, messages |-> <<>>, returnTo |-> ""]

Init ==
    /\ users = {}
    /\ nextId = 1
    /\ session = [r \in Clients |-> NoSession]
    /\ req = [r \in Clients |-> Idle]
    /\ signedUp = {}

\* ------------------------------------------------------------- user table
\* prisma.user.findUnique({where: {name}}): the row of that name, or null
findUnique(name) ==
    IF \E u \in users : u.name = name
    THEN CHOOSE u \in users : u.name = name
    ELSE None

\* variant: the table takes any number of rows of a name
createConflicts_Never(name) == FALSE

\* prisma.user.create rejects a second row of a name (name is a unique column:
\* findUnique takes it as its key)
createConflicts(name) == \E u \in users : u.name = name

\* --------------------------------------------------------- local strategy
\* variant: the `!` in front of timingSafeEqual left out
verify_Unnegated(username, password, found, fault) ==
    IF fault
    THEN Cb("lookup failed", None, "")
    ELSE IF found = None
    THEN Cb("", None, NotFoundMessage)
    ELSE LET hashedPassword == calcHash(password, found.salt)
         IN IF timingSafeEqualThrows(found.password, hashedPassword)
            THEN Cb("RangeError", None, "")
            ELSE IF timingSafeEqual(found.password, hashedPassword)
            THEN Cb("", None, MismatchMessage)
            ELSE Cb("", found, "")

\* variant: the catch block reports a rejection
verify_CatchRejects(username, password, found, fault) ==
    IF fault
    THEN Cb("", None, MismatchMessage)
    ELSE IF found = None
    THEN Cb("", None, NotFoundMessage)
    ELSE LET hashedPassword == calcHash(password, found.salt)
         IN IF timingSafeEqualThrows(found.password, hashedPassword)
            THEN Cb("", None, MismatchMessage)
            ELSE IF ~timingSafeEqual(found.password, hashedPassword)
            THEN Cb("", None, MismatchMessage)
            ELSE Cb("", found, "")

\* variant: the comparison of the digests left out
verify_NoComparison(username, password, found, fault) ==
    IF fault
    THEN Cb("lookup failed", None, "")
    ELSE IF found = None
    THEN Cb("", None, NotFoundMessage)
    ELSE Cb("", found, "")

\* the verify callback, from the settling of findUnique on: `found` is what the
\* await yields, `fault` tells that it threw instead
verify(username, password, found, fault) ==
    IF fault
    THEN Cb("lookup failed", None, "")
    ELSE IF found = None
    THEN Cb("", None, NotFoundMessage)
    ELSE LET hashedPassword == calcHash(password, found.salt)
         IN IF timingSafeEqualThrows(found.password, hashedPassword)
            THEN Cb("RangeError", None, "")
            ELSE IF ~timingSafeEqual(found.password, hashedPassword)
            THEN Cb("", None, MismatchMessage)
            ELSE Cb("", found, "")

\* ------------------------------------------------- passport.authenticate
\* variant: the failed attempt leaves the submitted name as the session's user
Fail_SetsUser(r, q, message) ==
    /\ req' = [req EXCEPT ![r] = [q EXCEPT !.pc = "done", !.info = message,
                                           !.res = Redirect(failureRedirect)]]
    /\ session' = [session EXCEPT ![r].messages = Append(@, message),
                                  ![r].user = [id |-> 0, name |-> q.body.name]]

\* failure of the strategy under {failureRedirect, failureMessage: true}: the
\* message is pushed on the session's messages and the browser is sent back
Fail(r, q, message) ==
    /\ req' = [req EXCEPT ![r] = [q EXCEPT !.pc = "done", !.info = message,
                                           !.res = Redirect(failureRedirect)]]
    /\ session' = [session EXCEPT ![r].messages = Append(@, message)]

\* POST /login arrives: the local strategy reads the name and password fields
\* and fails at once when one is missing, else it calls the verify callback,
\* which runs up to its await of findUnique.
LoginReceive(r, body) ==
    /\ req[r].kind = "idle"
    /\ Len(session[r].messages) < MaxMsgs
    /\ LET q == [Idle EXCEPT !.kind = "login", !.body = body]
       IN IF body.name = "" \/ body.password = ""
          THEN Fail(r, q, MissingCredentials)
          ELSE /\ req' = [req EXCEPT ![r] = [q EXCEPT !.pc = "lookup"]]
               /\ session' = session
    /\ UNCHANGED <<users, nextId, signedUp>>

\* variant: the `return` in front of the first cb left out: the callback runs
\* on into user.salt of null, and its catch calls cb again
verifyCalls_NoReturn(username, password, found, fault) ==
    IF ~fault /\ found = None
    THEN <<Cb("", None, NotFoundMessage), Cb("TypeError", None, "")>>
    ELSE <<verify(username, password, found, fault)>>

\* the calls of cb along the path the verify callback takes: every path ends
\* in a `return cb(...)`
verifyCalls(username, password, found, fault) ==
    <<verify(username, password, found, fault)>>

\* variant: a successful login stores the password again under a new salt
LoginLookup_Rehash(r, fault) ==
    /\ req[r].kind = "login" /\ req[r].pc = "lookup"
    /\ LET found == IF fault THEN None ELSE findUnique(req[r].body.name)
           calls == verifyCalls(req[r].body.name, req[r].body.password, found, fault)
           cb    == calls[1]
           q     == [req[r] EXCEPT !.user = found, !.cb = cb, !.cbCalls = Len(calls),
                                   !.hashedPassword =
                                       IF found = None THEN <<>>
                                       ELSE calcHash(req[r].body.password, found.salt)]
       IN IF cb.err # ""
          THEN /\ req' = [req EXCEPT ![r] = [q EXCEPT !.pc = "done", !.res = NextErr(cb.err)]]
               /\ session' = session
               /\ users' = users
          ELSE IF cb.user = None
          THEN Fail(r, q, cb.info) /\ users' = users
          ELSE /\ req' = [req EXCEPT ![r] = [q EXCEPT !.pc = "serialize"]]
               /\ session' = session
               /\ LET salt == (found.salt % MaxSalt) + 1
                  IN users' = (users \ {found}) \cup
                         {[found EXCEPT !.salt = salt,
                                        !.password = calcHash(req[r].body.password, salt)]}
    /\ UNCHANGED <<nextId, signedUp>>

\* findUnique settles, the verify callback runs to its end and
\* passport.authenticate acts on what cb was called with
LoginLookup(r, fault) ==
    /\ req[r].kind = "login" /\ req[r].pc = "lookup"
    /\ LET found == IF fault THEN None ELSE findUnique(req[r].body.name)
           calls == verifyCalls(req[r].body.name, req[r].body.password, found, fault)
           cb    == calls[1]
           q     == [req[r] EXCEPT !.user = found, !.cb = cb, !.cbCalls = Len(calls),
                                   !.hashedPassword =
                                       IF found = None THEN <<>>
                                       ELSE calcHash(req[r].body.password, found.salt)]
       IN IF cb.err # ""
          THEN /\ req' = [req EXCEPT ![r] = [q EXCEPT !.pc = "done", !.res = NextErr(cb.err)]]
               /\ session' = session
          ELSE IF cb.user = None
          THEN Fail(r, q, cb.info)
          ELSE /\ req' = [req EXCEPT ![r] = [q EXCEPT !.pc = "serialize"]]
               /\ session' = session
    /\ UNCHANGED <<users, nextId, signedUp>>

\* variant: the user to serialize is kept in one place for all requests, so
\* that an attempt may pick up the user another attempt has just passed on
LoginSerialize_SharedUser(r) ==
    /\ req[r].kind = "login" /\ req[r].pc = "serialize"
    /\ LET others == {q \in Clients : q # r /\ req[q].kind = "login"
                                       /\ req[q].cb.user # None}
           src == IF others = {} THEN r ELSE CHOOSE q \in others : TRUE
           obj == serializeUser(req[src].cb.user)
       IN /\ session' = [session EXCEPT ![r].user = obj]
          /\ req' = [req EXCEPT ![r].pc = "done", ![r].obj = obj,
                                ![r].res = Redirect(IF session[r].returnTo # ""
                                                    THEN session[r].returnTo
                                                    ELSE successReturnToOrRedirect)]
    /\ UNCHANGED <<users, nextId, signedUp>>

\* the nextTick of serializeUser: the reduced user goes into the session and
\* the browser is sent to returnTo, or to "/" when the session has none
LoginSerialize(r) ==
    /\ req[r].kind = "login" /\ req[r].pc = "serialize"
    /\ LET obj == serializeUser(req[r].cb.user)
       IN /\ session' = [session EXCEPT ![r].user = obj]
          /\ req' = [req EXCEPT ![r].pc = "done", ![r].obj = obj,
                                ![r].res = Redirect(IF session[r].returnTo # ""
                                                    THEN session[r].returnTo
                                                    ELSE successReturnToOrRedirect)]
    /\ UNCHANGED <<users, nextId, signedUp>>

\* the user a request finds in its session (passport restores it with
\* deserializeUser before the route runs), or none
SessionUser(r) ==
    IF session[r].user = None THEN None ELSE deserializeUser(session[r].user)

\* variant: the redirect is sent and the session keeps its user
Logout_KeepsUser(r, fault) ==
    /\ req[r].kind = "idle"
    /\ LET q == [Idle EXCEPT !.kind = "logout", !.pc = "done", !.user = SessionUser(r)]
       IN IF fault
          THEN /\ req' = [req EXCEPT ![r] = [q EXCEPT !.res = NextErr("logout failed")]]
               /\ session' = session
          ELSE /\ req' = [req EXCEPT ![r] = [q EXCEPT !.res = Redirect(LoginForm)]]
               /\ session' = session
    /\ UNCHANGED <<users, nextId, signedUp>>

\* GET /logout: req.logout drops the user and the rest of the session, then
\* the browser is sent to the login form; a failing session store ends in next(err)
Logout(r, fault) ==
    /\ req[r].kind = "idle"
    /\ LET q == [Idle EXCEPT !.kind = "logout", !.pc = "done", !.user = SessionUser(r)]
       IN IF fault
          THEN /\ req' = [req EXCEPT ![r] = [q EXCEPT !.res = NextErr("logout failed")]]
               /\ session' = session
          ELSE /\ req' = [req EXCEPT ![r] = [q EXCEPT !.res = Redirect(LoginForm)]]
               /\ session' = [session EXCEPT ![r] = NoSession]
    /\ UNCHANGED <<users, nextId, signedUp>>

\* variant: the user is fetched again from the table by the stored name
Restore_Refetch(r) ==
    /\ req[r].kind = "idle"
    /\ session[r].user # None
    /\ LET row == findUnique(session[r].user.name)
       IN req' = [req EXCEPT ![r] = [Idle EXCEPT !.kind = "restore", !.pc = "done",
                                                 !.user = IF row = None THEN None
                                                          ELSE serializeUser(row)]]
    /\ UNCHANGED <<users, nextId, session, signedUp>>

\* any later request of a logged-in session: deserializeUser restores req.user
Restore(r) ==
    /\ req[r].kind = "idle"
    /\ session[r].user # None
    /\ req' = [req EXCEPT ![r] = [Idle EXCEPT !.kind = "restore", !.pc = "done",
                                              !.user = deserializeUser(session[r].user)]]
    /\ UNCHANGED <<users, nextId, session, signedUp>>

\* POST /signup arrives: validation, and on success salt and hash up to the
\* await of create
SignupReceive(r, body, salt) ==
    /\ req[r].kind = "idle"
    /\ LET messages == validationResult(body)
           q        == [Idle EXCEPT !.kind = "signup", !.body = body]
       IN IF messages # <<>>
          THEN req' = [req EXCEPT ![r] =
                   [q EXCEPT !.pc = "done",
                             !.res = Render(SignupView,
                                            [title |-> SignupTitle, name |-> body.name,
                                             email |-> body.email, age |-> body.age,
                                             messages |-> messages])]]
          ELSE req' = [req EXCEPT ![r] =
                   [q EXCEPT !.pc = "create", !.salt = salt,
                             !.hashedPassword = calcHash(body.password, salt)]]
    /\ UNCHANGED <<users, nextId, session, signedUp>>

\* variant: the failure of create is caught and ignored
SignupCreate_Swallowed(r, fault) ==
    /\ req[r].kind = "signup" /\ req[r].pc = "create"
    /\ LET body == req[r].body
       IN IF fault \/ createConflicts(body.name)
          THEN /\ req' = [req EXCEPT ![r].pc = "done", ![r].res = Redirect(LoginForm)]
               /\ UNCHANGED <<users, nextId, signedUp>>
          ELSE /\ users' = users \cup {[id |-> nextId, name |-> body.name,
                                        password |-> req[r].hashedPassword,
                                        salt |-> req[r].salt, email |-> body.email,
                                        age |-> ToNumber(body.age)]}
               /\ nextId' = nextId + 1
               /\ signedUp' = signedUp \cup {<<body.name, body.password>>}
               /\ req' = [req EXCEPT ![r].pc = "done", ![r].res = Redirect(LoginForm)]
    /\ UNCHANGED session

\* variant: the row gets a salt of its own, not the one that went into the hash
SignupCreate_OtherSalt(r, fault) ==
    /\ req[r].kind = "signup" /\ req[r].pc = "create"
    /\ LET body == req[r].body
       IN IF fault \/ createConflicts(body.name)
          THEN /\ req' = [req EXCEPT ![r].pc = "done",
                                     ![r].res = Thrown(IF fault THEN "create failed"
                                                       ELSE "ConflictError")]
               /\ UNCHANGED <<users, nextId, signedUp>>
          ELSE /\ users' = users \cup {[id |-> nextId, name |-> body.name,
                                        password |-> req[r].hashedPassword,
                                        salt |-> (req[r].salt % MaxSalt) + 1,
                                        email |-> body.email,
                                        age |-> ToNumber(body.age)]}
               /\ nextId' = nextId + 1
               /\ signedUp' = signedUp \cup {<<body.name, body.password>>}
               /\ req' = [req EXCEPT ![r].pc = "done", ![r].res = Redirect(LoginForm)]
    /\ UNCHANGED session

\* create settles: the row is inserted and the browser sent to the login
\* form, or the await throws and the handler ends there
SignupCreate(r, fault) ==
    /\ req[r].kind = "signup" /\ req[r].pc = "create"
    /\ LET body == req[r].body
       IN IF fault \/ createConflicts(body.name)
          THEN /\ req' = [req EXCEPT ![r].pc = "done",
                                     ![r].res = Thrown(IF fault THEN "create failed"
                                                       ELSE "ConflictError")]
               /\ UNCHANGED <<users, nextId, signedUp>>
          ELSE /\ users' = users \cup {[id |-> nextId, name |-> body.name,
                                        password |-> req[r].hashedPassword,
                                        salt |-> req[r].salt, email |-> body.email,
                                        age |-> ToNumber(body.age)]}
               /\ nextId' = nextId + 1
               /\ signedUp' = signedUp \cup {<<body.name, body.password>>}
               /\ req' = [req EXCEPT ![r].pc = "done", ![r].res = Redirect(LoginForm)]
    /\ UNCHANGED session

\* the response is out and the request is gone
Close(r) ==
    /\ req[r].pc = "done"
    /\ req' = [req EXCEPT ![r] = Idle]
    /\ UNCHANGED <<users, nextId, session, signedUp>>

Next ==
    \/ \E r \in Clients, body \in LoginBodies : LoginReceive(r, body)
    \/ \E r \in Clients, fault \in BOOLEAN : LoginLookup(r, fault)
    \/ \E r \in Clients : LoginSerialize(r)
    \/ \E r \in Clients, fault \in BOOLEAN : Logout(r, fault)
    \/ \E r \in Clients : Restore(r)
    \/ \E r \in Clients, body \in SignupBodies, salt \in Salts : SignupReceive(r, body, salt)
    \/ \E r \in Clients, fault \in BOOLEAN : SignupCreate(r, fault)
    \/ \E r \in Clients : Close(r)

Spec == Init /\ [][Next]_vars

\* ------------------------------------------- the table changed from outside
\* a row is removed by something other than this router (the router itself
\* never deletes); the sessions are not told
StoreDelete(u) ==
    /\ u \in users
    /\ nextId <= MaxId
    /\ users' = users \ {u}
    /\ signedUp' = {p \in signedUp : p[1] # u.name}
    /\ UNCHANGED <<nextId, session, req>>

NextStore ==
    \/ Next
    \/ \E u \in users : StoreDelete(u)

SpecStore == Init /\ [][NextStore]_vars

\* ================================================================ claims
LoginDone(r)  == req[r].kind = "login" /\ req[r].pc = "done"
SignupDone(r) == req[r].kind = "signup" /\ req[r].pc = "done"

\* the attempt ended Authenticated: the browser is sent to "/" and the
\* session holds the principal that was produced for it
Authenticated(r) ==
    /\ LoginDone(r)
    /\ req[r].res = Redirect("/")
    /\ req[r].obj # None
    /\ session[r].user = req[r].obj

\* the row the lookup of attempt r returned was created by a signup with the
\* password the attempt submits
CorrectPair(r) ==
    /\ req[r].user # None
    /\ req[r].user \in users
    /\ req[r].user.name = req[r].body.name
    /\ <<req[r].body.name, req[r].body.password>> \in signedUp

\* C1: a login attempt whose lookup returned the stored record of the
\* submitted name, and whose password is the one that record was signed up
\* with, ends Authenticated, and its session principal has exactly that
\* record's id and name.
C1_CorrectPairAuthenticates ==
    \A r \in Clients :
        (LoginDone(r) /\ CorrectPair(r)) =>
            /\ Authenticated(r)
            /\ req[r].obj = [id |-> req[r].user.id, name |-> req[r].user.name]

C1_Witness ==
    \E r \in Clients : LoginDone(r) /\ CorrectPair(r) /\ Authenticated(r)

\* the two rejections of the verify callback
NotFoundCase(r) ==
    /\ LoginDone(r)
    /\ req[r].body.name # "" /\ req[r].body.password # ""
    /\ req[r].cb # NoCb /\ req[r].cb.err = ""
    /\ req[r].user = None
WrongPasswordCase(r) ==
    /\ LoginDone(r)
    /\ req[r].body.name # "" /\ req[r].body.password # ""
    /\ req[r].cb # NoCb /\ req[r].cb.err = ""
    /\ req[r].user # None
    /\ <<req[r].body.name, req[r].body.password>> \notin signedUp

\* what the caller of a failed attempt gets to see: the arguments of cb, the
\* message, the response and the message the attempt left in the session
Failure(r) ==
    <<req[r].cb, req[r].info, req[r].res,
      IF session[r].messages = <<>> THEN ""
      ELSE session[r].messages[Len(session[r].messages)]>>

\* C2: an attempt with a name that has no record and an attempt with an
\* existing name and a wrong password both fail, and nothing in the failure
\* (callback arguments, message, response, message left in the session) tells
\* them apart.
C2_RejectionsIndistinguishable ==
    \A a, b \in Clients :
        (NotFoundCase(a) /\ WrongPasswordCase(b)) =>
            /\ ~Authenticated(a) /\ ~Authenticated(b)
            /\ req[a].res = Redirect(failureRedirect)
            /\ Failure(a) = Failure(b)

C2_Witness ==
    \E a, b \in Clients : NotFoundCase(a) /\ WrongPasswordCase(b)

\* C3: when the lookup of a login attempt faults, the attempt ends in the
\* error outcome: no credential rejection is reported (no failure message, no
\* redirect to the login form), nothing is authenticated and the session is
\* left as it was.
C3_LookupFaultIsInternalError ==
    [][\A r \in Clients :
          LoginLookup(r, TRUE) =>
              /\ req'[r].pc = "done"
              /\ req'[r].res.type = "error"
              /\ req'[r].cb.err # "" /\ req'[r].cb.user = None
              /\ req'[r].info \notin {NotFoundMessage, MismatchMessage}
              /\ session' = session]_vars

C3_Witness ==
    \E r \in Clients : LoginDone(r) /\ req[r].res = NextErr("lookup failed")

\* the name has been signed up, with a password other than the submitted one
WrongPasswordFor(body) ==
    /\ \E p \in Passwords : <<body.name, p>> \in signedUp
    /\ <<body.name, body.password>> \notin signedUp

\* C4: once a signup with name n and password p has created its record, a
\* login with n and p whose lookup does not fault is passed on by the verify
\* callback and ends Authenticated, and a login with n and another password
\* ends without authenticating: it is sent back to the login form, or to the
\* error handler.
C4_SignupThenLogin ==
    [][\A r \in Clients :
          /\ (LoginLookup(r, FALSE)
                 /\ <<req[r].body.name, req[r].body.password>> \in signedUp)
             => (req'[r].pc = "serialize" /\ req'[r].cb.user.name = req[r].body.name)
          /\ LoginSerialize(r) => Authenticated(r)'
          /\ (~LoginDone(r) /\ LoginDone(r)' /\ WrongPasswordFor(req'[r].body))
             => /\ ~Authenticated(r)'
                /\ session'[r].user = session[r].user
                /\ \/ req'[r].res = Redirect("/users/login")
                   \/ req'[r].res.type = "error"]_vars

C4_Witness ==
    \E a, b \in Clients :
        /\ Authenticated(a)
        /\ <<req[a].body.name, req[a].body.password>> \in signedUp
        /\ WrongPasswordCase(b)
        /\ req[b].body.name = req[a].body.name
        /\ req[b].res = Redirect("/users/login")

\* the fields of a signup form that do not pass their check
FailingFields(body) ==
    {f \in {"name"} : body.name \in {Undefined, ""}}
    \cup {f \in {"password"} : body.password \in {Undefined, ""}}
    \cup {f \in {"email"} : body.email # "a@example.com"}
    \cup {f \in {"age"} : body.age # "20"}

Paths(messages) == {messages[i].path : i \in DOMAIN messages}

\* C5: a signup request with a field that fails validation is answered with
\* the signup form, the list of the errors of exactly the failing fields and
\* the submitted name, email and age, and the user table is left as it was.
C5_InvalidSignupTouchesNothing ==
    [][\A r \in Clients :
          (req[r].kind = "idle" /\ req'[r].kind = "signup"
              /\ FailingFields(req'[r].body) # {}) =>
              /\ users' = users /\ nextId' = nextId /\ signedUp' = signedUp
              /\ req'[r].pc = "done"
              /\ req'[r].res.type = "render" /\ req'[r].res.to = "users/signup"
              /\ Paths(req'[r].res.data.messages) = FailingFields(req'[r].body)
              /\ req'[r].res.data.name = req'[r].body.name
              /\ req'[r].res.data.email = req'[r].body.email
              /\ req'[r].res.data.age = req'[r].body.age]_vars

C5_Witness ==
    \E r \in Clients :
        /\ SignupDone(r) /\ req[r].body.name = ""
        /\ req[r].res.type = "render"
        /\ "name" \in Paths(req[r].res.data.messages)

\* a signup form with a name and a password, and neither email nor age
OmitsEmailAndAge(body) ==
    /\ body.name \notin {Undefined, ""} /\ body.password \notin {Undefined, ""}
    /\ body.email = Undefined /\ body.age = Undefined

\* C6 as stated: a signup with a name and a password and with email and age
\* left out is not answered with the form and its field errors.
C6_OmittedEmailAgeAccepted ==
    \A r \in Clients :
        (SignupDone(r) /\ OmitsEmailAndAge(req[r].body)) => req[r].res.type # "render"

\* C6 amended: a signup with a name and a password and with email and age
\* left out is answered with the form and the errors of email and age and
\* never reaches create; a signup is answered with the redirect to the login
\* form only when all four fields passed their checks and its row exists.
C6_EmailAndAgeRequired ==
    \A r \in Clients :
        /\ (req[r].kind = "signup" /\ OmitsEmailAndAge(req[r].body)) =>
              /\ SignupDone(r)
              /\ req[r].res.type = "render"
              /\ Paths(req[r].res.data.messages) = {"email", "age"}
        /\ (SignupDone(r) /\ req[r].res = Redirect("/users/login")) =>
              /\ FailingFields(req[r].body) = {}
              /\ \E u \in users : u.name = req[r].body.name

C6_Witness ==
    \E r \in Clients :
        /\ SignupDone(r) /\ OmitsEmailAndAge(req[r].body)
        /\ req[r].res.type = "render"

\* C7: every principal held in a session has the fields id and name and no
\* other: no digest, no salt, no other column of the user table.
C7_SessionHoldsIdAndNameOnly ==
    \A r \in Clients :
        session[r].user # None => DOMAIN session[r].user = {"id", "name"}

C7_Witness ==
    \E r \in Clients : session[r].user # None /\ Authenticated(r)

\* C8: restoring what serializeUser made of a user record gives a principal
\* with the id and the name of that record, for every record of the table
\* and for every request that restored its user from the session.
C8_RoundTrip ==
    /\ \A u \in users :
          LET p == deserializeUser(serializeUser(u))
          IN p.id = u.id /\ p.name = u.name
    /\ \A r \in Clients :
          req[r].kind = "restore" =>
              \E u \in users : req[r].user.id = u.id /\ req[r].user.name = u.name

C8_Witness ==
    \E r \in Clients :
        /\ req[r].kind = "restore"
        /\ \E u \in users : req[r].user = deserializeUser(serializeUser(u))

Passed(r) == req[r].cb # NoCb /\ req[r].cb.err = "" /\ req[r].cb.user # None
\* the strategy failed: a credential is missing or cb was called with false
Rejected(r) == req[r].cb = NoCb \/ (req[r].cb.err = "" /\ req[r].cb.user = None)

\* C10: a finished POST /login is answered with the redirect to "/" exactly
\* when its attempt authenticated, and an attempt that was rejected is
\* answered with the redirect to the login form, its failure message being
\* the last of the session's messages.
C10_LoginRedirects ==
    \A r \in Clients :
        LoginDone(r) =>
            /\ (req[r].res = Redirect("/")) <=> Passed(r)
            /\ Passed(r) => session[r].user # None
            /\ Rejected(r) =>
                  /\ req[r].res = Redirect("/users/login")
                  /\ req[r].info # ""
                  /\ session[r].messages # <<>>
                  /\ session[r].messages[Len(session[r].messages)] = req[r].info

C10_Witness ==
    \E a, b \in Clients :
        /\ LoginDone(a) /\ Passed(a) /\ req[a].res = Redirect("/")
        /\ LoginDone(b) /\ Rejected(b) /\ req[b].res = Redirect("/users/login")

\* C11: a logout that completes without error leaves its session without
\* principal and answers with the redirect to the login form; from then on a
\* session without principal restores no user for any request, and gets a
\* principal again only by a login attempt of that session that ends
\* Authenticated.
C11_LogoutClearsSession ==
    [][\A r \in Clients :
          /\ (req[r].kind = "idle" /\ req'[r].kind = "logout"
                 /\ req'[r].res.type # "error")
             => /\ session'[r].user = None
                /\ req'[r].pc = "done"
                /\ req'[r].res = Redirect("/users/login")
          /\ (req[r].kind = "idle" /\ req'[r].kind = "restore")
             => session[r].user # None
          /\ (session[r].user = None /\ session'[r].user # None)
             => (req[r].kind = "login" /\ Authenticated(r)')]_vars

C11_Witness ==
    \E r \in Clients :
        /\ req[r].kind = "logout" /\ req[r].user # None
        /\ req[r].res = Redirect("/users/login")
        /\ session[r].user = None

\* C12: in every reachable state no two rows of the user table have the same
\* name, however the signups interleave; and the signup handler does not look
\* for the name itself: a valid form goes on to create, without a change of
\* the table, also when a row of its name exists.
C12_NamesUnique ==
    /\ [](\A u, v \in users : u.name = v.name => u = v)
    /\ [][\A r \in Clients :
             (req[r].kind = "idle" /\ req'[r].kind = "signup"
                 /\ FailingFields(req'[r].body) = {})
             => (req'[r].pc = "create" /\ users' = users)]_vars

\* two signups of one name were both waiting for create; one got the row, the
\* other the conflict
C12_Witness ==
    \E a, b \in Clients :
        /\ a # b
        /\ SignupDone(a) /\ req[a].res = Redirect("/users/login")
        /\ SignupDone(b) /\ req[b].res = Thrown("ConflictError")
        /\ req[a].body.name = req[b].body.name
        /\ \E u \in users : u.name = req[a].body.name /\ u.salt = req[a].salt
        /\ req[a].salt # req[b].salt

\* C13: a principal enters a session only in the step that ends a login
\* attempt of that session as Authenticated, and it has the id and the name
\* of the row that attempt found; an attempt that ends in a rejection (unknown
\* name, wrong password, missing field) or in an error leaves the session's
\* principal as it was.
C13_PrincipalOnlyFromAuthenticatedLogin ==
    [][\A r \in Clients :
          /\ (session'[r].user # session[r].user /\ session'[r].user # None)
             => /\ req[r].kind = "login" /\ req[r].pc = "serialize"
                /\ LoginDone(r)' /\ Passed(r)' /\ Authenticated(r)'
                /\ req'[r].cb.user \in users
                /\ session'[r].user.id = req'[r].cb.user.id
                /\ session'[r].user.name = req'[r].cb.user.name
          /\ (~LoginDone(r) /\ LoginDone(r)' /\ ~Passed(r)')
             => session'[r].user = session[r].user]_vars

\* a session that was given a principal by one attempt keeps it through a
\* later rejected attempt
C13_Witness ==
    \E r \in Clients :
        /\ LoginDone(r) /\ Rejected(r)
        /\ session[r].user # None
        /\ \E u \in users : u.id = session[r].user.id /\ u.name = session[r].user.name

\* the bytes of a password stored as it was typed
Plaintext(password) == <<password>>

\* C14: every row a signup creates holds the salt generated for that signup
\* and, as its password, calcHash of the submitted password and that salt,
\* never the bytes of the submitted password; and every row of the table is
\* such a row.
C14_RowHoldsDigestAndItsSalt ==
    /\ [][\A r \in Clients :
             (req[r].kind = "signup" /\ req[r].pc = "create" /\ req'[r] # req[r]
                 /\ users' # users)
             => \E u \in users' \ users :
                   /\ users' = users \cup {u}
                   /\ u.name = req[r].body.name
                   /\ u.salt = req[r].salt
                   /\ u.password = calcHash(req[r].body.password, req[r].salt)
                   /\ u.password # Plaintext(req[r].body.password)]_vars
    /\ [](\A u \in users :
             \E p \in Passwords :
                 /\ <<u.name, p>> \in signedUp
                 /\ u.password = calcHash(p, u.salt)
                 /\ u.password # Plaintext(p))

\* two rows with the same password and different salts
C14_Witness ==
    \E u, v \in users :
        /\ u.salt # v.salt
        /\ \E p \in Passwords :
              /\ <<u.name, p>> \in signedUp /\ <<v.name, p>> \in signedUp
              /\ u.password = calcHash(p, u.salt)
              /\ v.password = calcHash(p, v.salt)

\* the attempt submits a name and a password, so the strategy calls the
\* verify callback
Attempt(r) ==
    req[r].kind = "login" /\ req[r].body.name # "" /\ req[r].body.password # ""

\* C15: a login attempt (a POST /login with a name and a password) is first
\* received, with its lookup pending and cb not called; when the lookup
\* settles cb has been called exactly once and the attempt is in exactly one
\* of three cases: error (the lookup threw: nothing found, nothing hashed),
\* rejection (nothing found and nothing hashed, or a row found and its digest
\* recomputed), or passed on with the row found (digest recomputed and equal),
\* which ends Authenticated in the next step; the digest is recomputed only
\* when the lookup found a row, and a finished attempt changes no more.
C15_AttemptStateMachine ==
    [][\A r \in Clients :
          /\ (req[r].kind = "idle" /\ Attempt(r)')
             => /\ req'[r].pc = "lookup"
                /\ req'[r].cb = NoCb /\ req'[r].cbCalls = 0
                /\ req'[r].res = NoResponse
          /\ (Attempt(r) /\ req[r].pc = "lookup" /\ req'[r] # req[r])
             => /\ req'[r].cbCalls = 1 /\ req'[r].cb # NoCb
                /\ (req'[r].hashedPassword # <<>>) <=> (req'[r].user # None)
                /\ req'[r].user # None => req'[r].user \in users
                /\ \/ /\ req'[r].cb.err # "" /\ req'[r].cb.user = None
                      /\ req'[r].pc = "done" /\ req'[r].res.type = "error"
                      /\ req'[r].user = None
                   \/ /\ req'[r].cb.err = "" /\ req'[r].cb.user = None
                      /\ req'[r].user # None
                            => req'[r].hashedPassword # req'[r].user.password
                      /\ req'[r].pc = "done"
                      /\ req'[r].res = Redirect("/users/login")
                   \/ /\ req'[r].cb.err = "" /\ req'[r].cb.user # None
                      /\ req'[r].cb.user = req'[r].user
                      /\ req'[r].hashedPassword = req'[r].user.password
                      /\ req'[r].pc = "serialize" /\ req'[r].res = NoResponse
          /\ (Attempt(r) /\ req[r].pc = "serialize" /\ req'[r] # req[r])
             => /\ req'[r].pc = "done" /\ req'[r].cbCalls = 1
                /\ req'[r].cb = req[r].cb
                /\ req'[r].res = Redirect("/")
          /\ (Attempt(r) /\ req[r].pc = "done" /\ req'[r] # req[r])
             => req'[r] = Idle]_vars

\* an attempt that found no row and was rejected beside one that found its
\* row and was authenticated
C15_Witness ==
    \E a, b \in Clients :
        /\ Attempt(a) /\ LoginDone(a) /\ req[a].cbCalls = 1
        /\ req[a].user = None /\ req[a].hashedPassword = <<>>
        /\ req[a].res = Redirect("/users/login")
        /\ Attempt(b) /\ LoginDone(b) /\ req[b].cbCalls = 1
        /\ req[b].user # None /\ req[b].hashedPassword = req[b].user.password
        /\ req[b].res = Redirect("/")

\* C16 (with rows removed from outside): a request of a session that holds
\* a principal restores exactly the stored principal, and changes neither the
\* session nor the table; the stored principal changes only by a login or a
\* logout of that session, so it is restored the same whatever becomes of the
\* table, also when its row is gone.
C16_RestoreIsIdentity ==
    [][\A r \in Clients :
          /\ (req[r].kind = "idle" /\ req'[r].kind \in {"restore", "logout"})
             => /\ req'[r].user = session[r].user
                /\ users' = users /\ nextId' = nextId
          /\ (req[r].kind = "idle" /\ req'[r].kind = "restore")
             => (session[r].user # None /\ session' = session)
          /\ session'[r].user # session[r].user
             => (req'[r] # req[r] /\ req'[r].kind \in {"login", "logout"})]_vars

\* a principal restored after its row was removed
C16_Witness ==
    \E r \in Clients :
        /\ req[r].kind = "restore"
        /\ req[r].user # None /\ req[r].user = session[r].user
        /\ ~\E u \in users : u.name = req[r].user.name

\* C17: whatever requests of other clients are in flight, a step of one
\* client's request changes no other client's request or session (the user
\* table is all they share); a login attempt whose lookup settles without
\* error is passed on exactly when its own name and password are a pair that
\* is signed up at that moment, with the row of its own name; and the
\* principal an attempt leaves in its session has the name that attempt
\* submitted.
C17_RequestsShareOnlyTheTable ==
    [][\A r \in Clients :
          /\ (req'[r] # req[r] \/ session'[r] # session[r])
             => \A q \in Clients \ {r} : req'[q] = req[q] /\ session'[q] = session[q]
          /\ (Attempt(r) /\ req[r].pc = "lookup" /\ req'[r] # req[r]
                 /\ req'[r].cb.err = "")
             => /\ Passed(r)' <=>
                      <<req[r].body.name, req[r].body.password>> \in signedUp
                /\ Passed(r)' =>
                      /\ req'[r].cb.user \in users
                      /\ req'[r].cb.user.name = req[r].body.name
                /\ req'[r].body = req[r].body
          /\ (Attempt(r) /\ req[r].pc = "serialize" /\ req'[r] # req[r])
             => /\ session'[r].user.name = req[r].body.name
                /\ session'[r].user.id = req[r].cb.user.id
                /\ req[r].cb.user \in users]_vars

\* two attempts for different users in flight together, one already
\* Authenticated with its own principal, the other passed on and waiting
C17_Witness ==
    \E a, b \in Clients :
        /\ Authenticated(a) /\ session[a].user.name = req[a].body.name
        /\ Attempt(b) /\ req[b].pc = "serialize"
        /\ req[b].body.name # req[a].body.name
        /\ req[b].cb.user.name = req[b].body.name

\* C18: no step of a login request (its arrival, the settling of its lookup
\* with whatever outcome, its serializeUser, its end) changes the user table:
\* every row has the name, salt and password it had, no row is added and
\* none removed.
C18_LoginLeavesTableUnchanged ==
    [][\A r \in Clients :
          (req'[r] # req[r] /\ (req[r].kind = "login" \/ req'[r].kind = "login"))
          => (users' = users /\ nextId' = nextId)]_vars

\* an authenticated and a rejected attempt, each with the row it found still
\* in the table as it was found
C18_Witness ==
    \E a, b \in Clients :
        /\ LoginDone(a) /\ Passed(a) /\ req[a].user \in users
        /\ LoginDone(b) /\ Rejected(b) /\ req[b].user # None /\ req[b].user \in users
        /\ nextId = Cardinality(users) + 1

====
